---- MODULE Spec2Model ----
(***************************************************************************)
(* Model of src/src/todo_backend/src/lib.rs: a todo canister that keeps a  *)
(* HashMap of todos (TODOSTATE), a Vec with their creation order           *)
(* (TODOORDER) and an id counter (ID), and offers create_todo, get_todo,   *)
(* get_todos, update_todo and delete_todo.                                 *)
(*                                                                         *)
(* Integer widths are scaled down so that the arithmetic of get_todos can  *)
(* be enumerated: u64 has U64Bits bits, usize has Usize32Bits bits on the  *)
(* 32-bit (wasm32) target and U64Bits bits on a 64-bit target.  Only the   *)
(* relations between the widths matter: usize is narrower than u64 on      *)
(* wasm32, and DEFAULT_PAGE_SIZE, every Vec length and the offsets of the  *)
(* first few pages of the default size fit in usize.                       *)
(***************************************************************************)
EXTENDS Integers, Sequences, FiniteSets, TLC

\* ---------------------------------------------------------------- bounds
MaxCreates == 2
U64Bits == 7
Usize32Bits == 6

Names == {"a", "b"}
Descriptions == {"x", "y"}

\* ------------------------------------------------------------- constants
DEFAULT_PAGE_SIZE == 10

U64Mod == 2 ^ U64Bits
U64Max == U64Mod - 1
Usize32Mod == 2 ^ Usize32Bits

\* The compilations of the crate: the canister target is wasm32 (usize of
\* 32 bits), the unit tests run on the host (usize of 64 bits); arithmetic
\* overflow panics with overflow-checks (debug/test profile) and wraps
\* without (release profile).
Builds == [pointer_width : {32, 64}, overflow_checks : BOOLEAN]

UsizeMod(b) == IF b.pointer_width = 32 THEN Usize32Mod ELSE U64Mod

\* Option<T>: None is the empty sequence, Some(x) is <<x>>.
None == << >>
Some(x) == << x >>
is_some(o) == o # << >>
unwrap(o) == o[1]
unwrap_or(o, d) == IF is_some(o) THEN unwrap(o) ELSE d

\* Result<T, String>
Ok(v) == [ok |-> TRUE, val |-> v]
Err(e) == [ok |-> FALSE, err |-> e]

\* Outcome of a function that returns a plain value but may panic (trap).
Returned(v) == [panicked |-> FALSE, val |-> v]
Panicked == [panicked |-> TRUE]

\* TODOSTATE  the HashMap<u64, Todo> (lib.rs:15), a function from ids to todos
\* TODOORDER  the Vec<u64> of ids in creation order (lib.rs:16)
\* ID         the Cell<u64> id counter (lib.rs:17)
\* build      the compilation the canister runs as, fixed for a run
\* last       the last call: its name, its arguments and what it returned
\* issued     history: the ids create_todo returned, in call order
\* deleted    history: the ids delete_todo returned Ok(true) for
\* pristine   history: (name, description) given to create_todo, for the ids
\*            no update_todo or delete_todo call has targeted since
\* calls      the create_todo calls in progress, for the specification in
\*            which calls overlap (SpecConc): each call's position in
\*            create_todo, its arguments and the id it read from ID
VARIABLES TODOSTATE, TODOORDER, ID, build, last, issued, deleted, pristine,
          calls

vars == << TODOSTATE, TODOORDER, ID, build, last, issued, deleted, pristine,
           calls >>

\* ----------------------------------------------------------- collections
contains_key(store, id) == id \in DOMAIN store

hm_insert(store, id, todo) ==
    [k \in (DOMAIN store) \cup {id} |-> IF k = id THEN todo ELSE store[k]]

hm_remove_noop(store, id) == store

hm_remove(store, id) == [k \in (DOMAIN store) \ {id} |-> store[k]]

hm_get(store, id) == IF contains_key(store, id) THEN Some(store[id]) ELSE None

vec_push_front(order, id) == << id >> \o order

vec_push(order, id) == Append(order, id)

vec_contains(order, id) == \E k \in 1..Len(order) : order[k] = id

\* position(): index (0-based, wrapped in Option) of the first match
position(order, id) ==
    IF vec_contains(order, id)
    THEN Some((CHOOSE k \in 1..Len(order) :
                  /\ order[k] = id
                  /\ \A j \in 1..(k - 1) : order[j] # id) - 1)
    ELSE None

vec_remove_keep(order, pos) == order

vec_remove_first(order, pos) == Tail(order)

vec_remove(order, pos) ==
    SubSeq(order, 1, pos) \o SubSeq(order, pos + 2, Len(order))

\* ------------------------------------------------------------- create_todo
counter_stuck(current) == current

counter_next(current) == current + 1

new_todo_swapped(name, description) ==
    [name |-> description, description |-> name, is_completed |-> FALSE]

new_todo(name, description) ==
    [name |-> name, description |-> description, is_completed |-> FALSE]

create_todo(name, description) ==
    /\ ID < MaxCreates
    /\ LET next_id == ID IN
         /\ ID' = counter_next(ID)
         /\ TODOSTATE' = hm_insert(TODOSTATE, next_id, new_todo(name, description))
         /\ TODOORDER' = vec_push(TODOORDER, next_id)
         /\ last' = [op |-> "create_todo", args |-> << name, description >>,
                     ret |-> Ok(next_id)]
         /\ issued' = Append(issued, next_id)
         /\ deleted' = deleted
         /\ pristine' = [k \in (DOMAIN pristine) \cup {next_id} |->
                           IF k = next_id
                           THEN [name |-> name, description |-> description]
                           ELSE pristine[k]]
    /\ UNCHANGED << build, calls >>

\* ---------------------------------------------------------------- get_todo
get_todo_or_default(store, todo_id) ==
    IF contains_key(store, todo_id)
    THEN Ok(store[todo_id])
    ELSE Ok([name |-> "", description |-> "", is_completed |-> FALSE])

get_todo_ret(store, todo_id) ==
    IF contains_key(store, todo_id)
    THEN Ok(store[todo_id])
    ELSE Err("Todo Invalid Id")

get_todo_take(todo_id) ==
    /\ last' = [op |-> "get_todo", args |-> << todo_id >>,
                ret |-> get_todo_ret(TODOSTATE, todo_id)]
    /\ TODOSTATE' = hm_remove(TODOSTATE, todo_id)
    /\ UNCHANGED << TODOORDER, ID, build, issued, deleted, pristine, calls >>

get_todo(todo_id) ==
    /\ last' = [op |-> "get_todo", args |-> << todo_id >>,
                ret |-> get_todo_ret(TODOSTATE, todo_id)]
    /\ UNCHANGED << TODOSTATE, TODOORDER, ID, build, issued, deleted, pristine, calls >>

\* --------------------------------------------------------------- get_todos
Max(a, b) == IF a >= b THEN a ELSE b

Min(a, b) == IF a <= b THEN a ELSE b

wrapping_sub(a, b) == (a - b) % U64Mod

saturating_sub(a, b) == IF a >= b THEN a - b ELSE 0

\* order[start_index..end_index] of get_todos, or a panic: the u64 product
\* and the usize sum overflow (panic with overflow-checks, wrap without),
\* `as usize` truncates to the pointer width, and slicing panics when
\* start_index > end_index (end_index <= order.len() always holds).
get_todos_slice(b, order, page, page_size) ==
    LET ps == unwrap_or(page_size, DEFAULT_PAGE_SIZE)
        prod == saturating_sub(page, 1) * ps
    IN  IF prod > U64Max /\ b.overflow_checks
        THEN Panicked
        ELSE LET start_index == (prod % U64Mod) % UsizeMod(b)
                 sum == start_index + (ps % UsizeMod(b))
             IN  IF sum >= UsizeMod(b) /\ b.overflow_checks
                 THEN Panicked
                 ELSE LET end_index == Min(sum % UsizeMod(b), Len(order))
                      IN  IF start_index > end_index
                          THEN Panicked
                          ELSE Returned(SubSeq(order, start_index + 1, end_index))

\* .iter().filter_map(|id| store.get(id).cloned()).collect()
filter_map_get(store, ids) ==
    LET present == SelectSeq(ids, LAMBDA id : contains_key(store, id))
    IN  [k \in 1..Len(present) |-> store[present[k]]]

get_todos_ret(b, store, order, page, page_size) ==
    LET slice == get_todos_slice(b, order, page, page_size)
    IN  IF slice.panicked
        THEN Panicked
        ELSE Returned(filter_map_get(store, slice.val))

get_todos(page, page_size) ==
    /\ last' = [op |-> "get_todos", args |-> << page, page_size >>,
                ret |-> get_todos_ret(build, TODOSTATE, TODOORDER, page, page_size)]
    /\ UNCHANGED << TODOSTATE, TODOORDER, ID, build, issued, deleted, pristine, calls >>

\* ------------------------------------------------------------- update_todo
apply_update_all(todo, name, description, is_completed) ==
    [name |-> unwrap_or(name, ""),
     description |-> unwrap_or(description, ""),
     is_completed |-> unwrap_or(is_completed, FALSE)]

apply_update(todo, name, description, is_completed) ==
    [name |-> IF is_some(name) THEN unwrap(name) ELSE todo.name,
     description |-> IF is_some(description) THEN unwrap(description)
                     ELSE todo.description,
     is_completed |-> IF is_some(is_completed) THEN unwrap(is_completed)
                      ELSE todo.is_completed]

\* update written as remove-and-reinsert: the id moves to the end of the order
update_todo_reinsert(todo_id, name, description, is_completed) ==
    /\ IF contains_key(TODOSTATE, todo_id) /\ vec_contains(TODOORDER, todo_id)
       THEN /\ TODOSTATE' = [TODOSTATE EXCEPT ![todo_id] =
                               apply_update(@, name, description, is_completed)]
            /\ TODOORDER' = vec_push(vec_remove(TODOORDER,
                                unwrap(position(TODOORDER, todo_id))), todo_id)
            /\ last' = [op |-> "update_todo",
                        args |-> << todo_id, name, description, is_completed >>,
                        ret |-> Ok(TRUE)]
       ELSE /\ TODOSTATE' = TODOSTATE
            /\ TODOORDER' = TODOORDER
            /\ last' = [op |-> "update_todo",
                        args |-> << todo_id, name, description, is_completed >>,
                        ret |-> Err("Todo not found")]
    /\ pristine' = [k \in (DOMAIN pristine) \ {todo_id} |-> pristine[k]]
    /\ UNCHANGED << ID, build, issued, deleted, calls >>

\* update through entry(todo_id).or_default(): a missing id gets a record
\* before the call reports the failure
update_todo_upsert(todo_id, name, description, is_completed) ==
    /\ IF vec_contains(TODOORDER, todo_id) /\ contains_key(TODOSTATE, todo_id)
       THEN /\ TODOSTATE' = [TODOSTATE EXCEPT ![todo_id] =
                               apply_update(@, name, description, is_completed)]
            /\ last' = [op |-> "update_todo",
                        args |-> << todo_id, name, description, is_completed >>,
                        ret |-> Ok(TRUE)]
       ELSE /\ TODOSTATE' = hm_insert(TODOSTATE, todo_id,
                               apply_update(new_todo("", ""), name, description,
                                            is_completed))
            /\ last' = [op |-> "update_todo",
                        args |-> << todo_id, name, description, is_completed >>,
                        ret |-> Err("Todo not found")]
    /\ pristine' = [k \in (DOMAIN pristine) \ {todo_id} |-> pristine[k]]
    /\ UNCHANGED << TODOORDER, ID, build, issued, deleted, calls >>

update_todo(todo_id, name, description, is_completed) ==
    /\ LET exists == vec_contains(TODOORDER, todo_id) IN
         IF ~exists
         THEN /\ last' = [op |-> "update_todo",
                          args |-> << todo_id, name, description, is_completed >>,
                          ret |-> Err("Todo not found")]
              /\ TODOSTATE' = TODOSTATE
         ELSE IF contains_key(TODOSTATE, todo_id)
         THEN /\ TODOSTATE' = [TODOSTATE EXCEPT ![todo_id] =
                                 apply_update(@, name, description, is_completed)]
              /\ last' = [op |-> "update_todo",
                          args |-> << todo_id, name, description, is_completed >>,
                          ret |-> Ok(TRUE)]
         ELSE /\ last' = [op |-> "update_todo",
                          args |-> << todo_id, name, description, is_completed >>,
                          ret |-> Err("Todo not found in the store")]
              /\ TODOSTATE' = TODOSTATE
    /\ pristine' = [k \in (DOMAIN pristine) \ {todo_id} |-> pristine[k]]
    /\ UNCHANGED << TODOORDER, ID, build, issued, deleted, calls >>

\* ------------------------------------------------------------- delete_todo
delete_todo(todo_id) ==
    /\ LET removed == hm_get(TODOSTATE, todo_id) IN
         /\ TODOSTATE' = hm_remove(TODOSTATE, todo_id)
         /\ IF is_some(removed)
            THEN LET pos == position(TODOORDER, todo_id) IN
                   IF is_some(pos)
                   THEN /\ TODOORDER' = vec_remove(TODOORDER, unwrap(pos))
                        /\ last' = [op |-> "delete_todo", args |-> << todo_id >>,
                                    ret |-> Ok(TRUE)]
                        /\ deleted' = deleted \cup {todo_id}
                   ELSE /\ TODOORDER' = TODOORDER
                        /\ last' = [op |-> "delete_todo", args |-> << todo_id >>,
                                    ret |-> Ok(FALSE)]
                        /\ deleted' = deleted
            ELSE /\ TODOORDER' = TODOORDER
                 /\ last' = [op |-> "delete_todo", args |-> << todo_id >>,
                             ret |-> Err("Todo not found")]
                 /\ deleted' = deleted
    /\ pristine' = [k \in (DOMAIN pristine) \ {todo_id} |-> pristine[k]]
    /\ UNCHANGED << ID, build, issued, calls >>

\* ------------------------------------------- create_todo, calls overlapping
\* create_todo touches the state in three blocks: ID.with (read and
\* increment, lines 31-35), TODOSTATE.with (insert, lines 37-46) and
\* TODOORDER.with (push, lines 47-49), then returns.  The canister runs one
\* message at a time and create_todo never yields, so the runs where the
\* three blocks of a call are consecutive are the ones the deployment
\* produces; SpecConc also lets the blocks of different calls interleave,
\* which is every schedule a host with overlapping calls could produce.
CallIds == 1..MaxCreates

IdleCall == [pc |-> "idle", args |-> None, next_id |-> None]

issue_create(c, name, description) ==
    /\ calls[c].pc = "idle"
    /\ calls' = [calls EXCEPT ![c] =
                   [pc |-> "alloc", args |-> Some(<< name, description >>),
                    next_id |-> None]]
    /\ UNCHANGED << TODOSTATE, TODOORDER, ID, build, last, issued, deleted,
                    pristine >>

create_alloc(c) ==
    /\ calls[c].pc = "alloc"
    /\ LET current == ID IN
         /\ ID' = counter_next(current)
         /\ calls' = [calls EXCEPT ![c].pc = "insert",
                                   ![c].next_id = Some(current)]
    /\ UNCHANGED << TODOSTATE, TODOORDER, build, last, issued, deleted,
                    pristine >>

create_insert(c) ==
    /\ calls[c].pc = "insert"
    /\ LET a == unwrap(calls[c].args) IN
         TODOSTATE' = hm_insert(TODOSTATE, unwrap(calls[c].next_id),
                                new_todo(a[1], a[2]))
    /\ calls' = [calls EXCEPT ![c].pc = "push"]
    /\ UNCHANGED << TODOORDER, ID, build, last, issued, deleted, pristine >>

create_push(c) ==
    /\ calls[c].pc = "push"
    /\ LET a == unwrap(calls[c].args)
           next_id == unwrap(calls[c].next_id)
       IN  /\ TODOORDER' = vec_push(TODOORDER, next_id)
           /\ last' = [op |-> "create_todo", args |-> a, ret |-> Ok(next_id)]
           /\ issued' = Append(issued, next_id)
           /\ pristine' = [k \in (DOMAIN pristine) \cup {next_id} |->
                             IF k = next_id
                             THEN [name |-> a[1], description |-> a[2]]
                             ELSE pristine[k]]
    /\ calls' = [calls EXCEPT ![c].pc = "done"]
    /\ UNCHANGED << TODOSTATE, ID, build, deleted >>

\* ------------------------------------------------------------ state machine
Init ==
    /\ TODOSTATE = << >>
    /\ TODOORDER = << >>
    /\ ID = 0
    /\ build \in Builds
    /\ last = [op |-> "init"]
    /\ issued = << >>
    /\ deleted = {}
    /\ pristine = << >>
    /\ calls = [c \in CallIds |-> IdleCall]

\* Arguments the calls are tried with: every id that can have been issued
\* plus one that never is; pages and page sizes around the Vec's length and
\* around the integer widths.
Ids == 0..MaxCreates

Pages == {0, 1, 2, 3, 4, Usize32Mod + 1, U64Max}

PageSizes == {None} \cup {Some(s) : s \in {0, 1, 2, Usize32Mod, U64Max}}

OptNames == {None, Some("b")}

OptDescriptions == {None, Some("y")}

OptBools == {None} \cup {Some(c) : c \in BOOLEAN}

Next ==
    \/ \E n \in Names, d \in Descriptions : create_todo(n, d)
    \/ \E i \in Ids : get_todo(i)
    \/ \E p \in Pages, s \in PageSizes : get_todos(p, s)
    \/ \E i \in Ids, n \in OptNames, d \in OptDescriptions, c \in OptBools :
          update_todo(i, n, d, c)
    \/ \E i \in Ids : delete_todo(i)

Spec == Init /\ [][Next]_vars

NextConc ==
    \/ \E c \in CallIds, n \in Names, d \in Descriptions : issue_create(c, n, d)
    \/ \E c \in CallIds : create_alloc(c)
    \/ \E c \in CallIds : create_insert(c)
    \/ \E c \in CallIds : create_push(c)

SpecConc == Init /\ [][NextConc]_vars

\* ================================================================= claims
Range(seq) == {seq[k] : k \in 1..Len(seq)}

\* The records of a sequence of ids, resolved through the table.
RecordsOf(ids) == [k \in 1..Len(ids) |-> TODOSTATE[ids[k]]]

\* C1: after any sequence of calls the set of ids in the order index equals
\* the set of keys of the record table.
C1_OrderEqualsTable == Range(TODOORDER) = DOMAIN TODOSTATE

C1_Witness ==
    /\ last.op = "delete_todo"
    /\ last.ret.ok
    /\ last.ret.val = TRUE
    /\ ID = MaxCreates
    /\ Len(TODOORDER) = MaxCreates - 1

\* C2: the k-th create returns id k-1 whatever is interleaved, so returned
\* ids are strictly increasing, none is returned twice and an id freed by
\* delete is never handed out again.
C2_KthCreateReturnsKMinus1 ==
    /\ \A k \in 1..Len(issued) : issued[k] = k - 1
    /\ last.op = "create_todo" =>
          /\ last.ret = Ok(Len(issued) - 1)
          /\ last.ret.val \notin deleted

C2_Witness ==
    /\ last.op = "create_todo"
    /\ last.ret.val = 1
    /\ 0 \in deleted

\* C3: list never fails; when start = (max(page,1) - 1) * pageSize is at
\* least len(order), it completes normally and returns the empty sequence.
C3_ListPastEndIsEmpty ==
    last.op = "get_todos" =>
        LET page == last.args[1]
            ps == unwrap_or(last.args[2], DEFAULT_PAGE_SIZE)
            start == ((IF page >= 1 THEN page ELSE 1) - 1) * ps
        IN  start >= Len(TODOORDER) =>
                /\ ~last.ret.panicked
                /\ last.ret.val = << >>

\* C4: with N = len(order) and pageSize s >= 1, list(p, s) returns exactly
\* the records of order[(p-1)*s : min(p*s, N)] in that order, for every
\* page p with (p-1)*s < N.
C4_PageIsSlice ==
    last.op = "get_todos" =>
        LET p == last.args[1]
            s == unwrap_or(last.args[2], DEFAULT_PAGE_SIZE)
            N == Len(TODOORDER)
        IN  (s >= 1 /\ p >= 1 /\ (p - 1) * s < N) =>
                /\ ~last.ret.panicked
                /\ last.ret.val =
                     RecordsOf(SubSeq(TODOORDER, (p - 1) * s + 1, Min(p * s, N)))

\* C5: once delete(i) has returned true, in every later state get(i) fails
\* with the not-found error, i is absent from the order index, and no list
\* page contains the deleted record.
C5_DeletedStaysGone ==
    /\ \A i \in deleted :
          /\ ~get_todo_ret(TODOSTATE, i).ok
          /\ get_todo_ret(TODOSTATE, i).err = "Todo Invalid Id"
          /\ ~vec_contains(TODOORDER, i)
          /\ \A p \in Pages, s \in PageSizes :
                LET slice == get_todos_slice(build, TODOORDER, p, s)
                IN  ~slice.panicked => i \notin Range(slice.val)
    /\ (last.op = "get_todo" /\ last.args[1] \in deleted) => ~last.ret.ok

C5_Witness ==
    /\ last.op = "get_todo"
    /\ last.args[1] \in deleted
    /\ TODOORDER # << >>

\* C6: after create(n, d) returned i, get(i) returns {n, d, false} in every
\* later state until the first update or delete on i.
C6_RoundTrip ==
    \A i \in DOMAIN pristine :
        LET r == get_todo_ret(TODOSTATE, i)
        IN  /\ r.ok
            /\ r.val = [name |-> pristine[i].name,
                        description |-> pristine[i].description,
                        is_completed |-> FALSE]

C6_Witness ==
    /\ last.op = "get_todo"
    /\ last.args[1] \in DOMAIN pristine
    /\ last.ret.ok
    /\ last.ret.val.name = "b"
    /\ last.ret.val.description = "x"
    /\ \E j \in Range(issued) : j \notin DOMAIN pristine

\* C7: a successful update sets each of the three fields of record i to the
\* supplied value when one is supplied and leaves it unchanged when it is
\* omitted; with all three supplied get(i) returns exactly those values.
C7_UpdateStep ==
    (last'.op = "update_todo" /\ last'.ret.ok /\ last'.ret.val = TRUE) =>
        LET i == last'.args[1]
            n == last'.args[2]
            d == last'.args[3]
            c == last'.args[4]
        IN  /\ i \in DOMAIN TODOSTATE
            /\ i \in DOMAIN TODOSTATE'
            /\ TODOSTATE'[i].name =
                 IF is_some(n) THEN unwrap(n) ELSE TODOSTATE[i].name
            /\ TODOSTATE'[i].description =
                 IF is_some(d) THEN unwrap(d) ELSE TODOSTATE[i].description
            /\ TODOSTATE'[i].is_completed =
                 IF is_some(c) THEN unwrap(c) ELSE TODOSTATE[i].is_completed
            /\ (is_some(n) /\ is_some(d) /\ is_some(c)) =>
                 get_todo_ret(TODOSTATE', i) =
                   Ok([name |-> unwrap(n), description |-> unwrap(d),
                       is_completed |-> unwrap(c)])

C7_PartialUpdate == [][C7_UpdateStep]_vars

C7_Witness ==
    /\ last.op = "update_todo"
    /\ last.ret.ok
    /\ last.args[2] = Some("b")
    /\ last.args[3] = None
    /\ last.args[4] = None
    /\ TODOSTATE[last.args[1]] =
         [name |-> "b", description |-> "y", is_completed |-> TRUE]

\* C8: get, update and delete on an id that was never issued (i >= next_id)
\* or that has been deleted each return the not-found error, never a
\* success value.
C8_MissingStep ==
    (/\ last'.op \in {"get_todo", "update_todo", "delete_todo"}
     /\ (last'.args[1] >= ID \/ last'.args[1] \in deleted)) =>
        /\ ~last'.ret.ok
        /\ last'.ret.err =
             IF last'.op = "get_todo" THEN "Todo Invalid Id" ELSE "Todo not found"

C8_MissingIdNotFound == [][C8_MissingStep]_vars

C8_Witness ==
    /\ last.op = "update_todo"
    /\ last.args[1] \in deleted
    /\ ~last.ret.ok
    /\ ID = MaxCreates

\* C9: the order index lists the existing records in the order of their
\* creates: create appends the new id at the end, a successful delete(i)
\* removes the single element i and keeps the relative order of the rest.
C9_OrderStep ==
    /\ last'.op = "create_todo" =>
          TODOORDER' = TODOORDER \o << last'.ret.val >>
    /\ (last'.op = "delete_todo" /\ last'.ret.ok /\ last'.ret.val = TRUE) =>
          /\ TODOORDER' = SelectSeq(TODOORDER, LAMBDA x : x # last'.args[1])
          /\ Len(TODOORDER') = Len(TODOORDER) - 1

AllPageSizes == {None} \cup {Some(s) : s \in 0..U64Max}

C10_PageZeroIsPageOne ==
    \A s \in AllPageSizes :
        get_todos_ret(build, TODOSTATE, TODOORDER, 0, s) =
        get_todos_ret(build, TODOSTATE, TODOORDER, 1, s)

C10_Witness ==
    /\ last.op = "get_todos"
    /\ last.args[1] = 0
    /\ ~last.ret.panicked
    /\ Len(last.ret.val) = MaxCreates

\* C11: in every state reachable by create, update and delete calls the
\* order index contains no id more than once.
C11_NoDuplicateIds ==
    \A j, k \in 1..Len(TODOORDER) : j # k => TODOORDER[j] # TODOORDER[k]

C11_Witness ==
    /\ last.op = "update_todo"
    /\ last.ret.ok
    /\ Len(TODOORDER) = MaxCreates

\* C12: the start offset of list is computed with saturating arithmetic:
\* when (page - 1) * pageSize or start + pageSize exceeds the integer width
\* (of u64 or of the usize it is cast to) the computation neither wraps nor
\* aborts, so the call returns what the unbounded arithmetic gives: the
\* empty sequence for a page past the end, never an earlier page.
C12_SaturatingStart ==
    last.op = "get_todos" =>
        LET page == last.args[1]
            ps == unwrap_or(last.args[2], DEFAULT_PAGE_SIZE)
            prod == saturating_sub(page, 1) * ps
            N == Len(TODOORDER)
            UsizeMax == UsizeMod(build) - 1
        IN  (prod > UsizeMax \/ prod + ps > UsizeMax) =>
                /\ ~last.ret.panicked
                /\ last.ret.val =
                     IF prod >= N THEN << >>
                     ELSE RecordsOf(SubSeq(TODOORDER, prod + 1, Min(prod + ps, N)))

\* C13: for every page and every reachable state list(page, 0) completes
\* normally and returns the empty sequence.
C13_ZeroPageSizeIsEmpty ==
    /\ \A p \in 0..U64Max :
          LET r == get_todos_ret(build, TODOSTATE, TODOORDER, p, Some(0))
          IN  /\ ~r.panicked
              /\ r.val = << >>
    /\ (last.op = "get_todos" /\ last.args[2] = Some(0)) =>
          /\ ~last.ret.panicked
          /\ last.ret.val = << >>

C13_Witness ==
    /\ last.op = "get_todos"
    /\ last.args = << U64Max, Some(0) >>
    /\ ~last.ret.panicked
    /\ Len(TODOORDER) = MaxCreates

\* C14: get and list are read-only: whether the call succeeds or fails, the
\* record table, the order index and next_id are the same before and after.
C14_ReadStep ==
    last'.op \in {"get_todo", "get_todos"} =>
        /\ TODOSTATE' = TODOSTATE
        /\ TODOORDER' = TODOORDER
        /\ ID' = ID

C14_ReadsChangeNothing == [][C14_ReadStep]_vars

C14_Witness ==
    /\ last.op = "get_todo"
    /\ last.ret.ok
    /\ last.args = << 0 >>
    /\ TODOORDER = << 0, 1 >>

\* C16: a successful update(i, ...) changes nothing but the fields of record
\* i: the order index, next_id, the set of table keys and every other record
\* are unchanged, and the call returns true.
C16_UpdateFrameStep ==
    (last'.op = "update_todo" /\ last'.ret.ok) =>
        /\ last'.ret.val = TRUE
        /\ TODOORDER' = TODOORDER
        /\ ID' = ID
        /\ DOMAIN TODOSTATE' = DOMAIN TODOSTATE
        /\ \A j \in DOMAIN TODOSTATE :
              j # last'.args[1] => TODOSTATE'[j] = TODOSTATE[j]
        /\ position(TODOORDER', last'.args[1]) = position(TODOORDER, last'.args[1])

C16_UpdateFrame == [][C16_UpdateFrameStep]_vars

C16_Witness ==
    /\ last.op = "update_todo"
    /\ last.ret.ok
    /\ last.args[1] = 0
    /\ TODOORDER = << 0, 1 >>
    /\ TODOSTATE[0].is_completed
    /\ ~TODOSTATE[1].is_completed

\* C17: the defensive inconsistency branches are unreachable: delete never
\* returns the false success flag, update never fails with 'not found in
\* the store', and list never skips an id of its slice.
C17_DefensiveBranchesDead ==
    /\ last.op = "delete_todo" => (last.ret.ok => last.ret.val = TRUE)
    /\ last.op = "update_todo" =>
          (~last.ret.ok => last.ret.err # "Todo not found in the store")
    /\ \A i \in Ids :
          /\ (contains_key(TODOSTATE, i) => is_some(position(TODOORDER, i)))
          /\ (vec_contains(TODOORDER, i) => contains_key(TODOSTATE, i))
    /\ \A p \in Pages, s \in PageSizes :
          LET slice == get_todos_slice(build, TODOORDER, p, s)
          IN  ~slice.panicked =>
                Len(filter_map_get(TODOSTATE, slice.val)) = Len(slice.val)

C17_Witness ==
    /\ last.op = "get_todos"
    /\ ~last.ret.panicked
    /\ Len(last.ret.val) = 1
    /\ deleted # {}
    /\ ID = MaxCreates

\* C18: a failing operation changes no state: whenever update or delete
\* returns an error, the record table, the order index and next_id are the
\* same before and after the call.
C18_FailStep ==
    (last'.op \in {"update_todo", "delete_todo"} /\ ~last'.ret.ok) =>
        /\ TODOSTATE' = TODOSTATE
        /\ TODOORDER' = TODOORDER
        /\ ID' = ID

C18_FailureChangesNothing == [][C18_FailStep]_vars

C18_Witness ==
    /\ last.op = "delete_todo"
    /\ ~last.ret.ok
    /\ last.args[1] \in deleted
    /\ TODOORDER # << >>

\* C19: in every reachable state the order index is strictly ascending by
\* id and every id in it is smaller than next_id, so list enumerates in
\* increasing id order and the id the next create returns is in neither the
\* table nor the order index.
C19_AscendingBelowNextId ==
    /\ \A j, k \in 1..Len(TODOORDER) : j < k => TODOORDER[j] < TODOORDER[k]
    /\ \A k \in 1..Len(TODOORDER) : TODOORDER[k] < ID
    /\ ~contains_key(TODOSTATE, ID)
    /\ ~vec_contains(TODOORDER, ID)

C19_Witness ==
    /\ last.op = "get_todos"
    /\ ~last.ret.panicked
    /\ Len(last.ret.val) = 2
    /\ TODOORDER = << 0, 1 >>
    /\ ID = 2

\* C15: when create calls overlap, reading and incrementing next_id is one
\* atomic step, so each call obtains a distinct id, next_id advances by
\* exactly the number of calls, and every new id ends up in the table and
\* in the order index exactly once.
Allocated == {c \in CallIds : calls[c].pc \in {"insert", "push", "done"}}

Completed == {c \in CallIds : calls[c].pc = "done"}

C15_ConcurrentCreates ==
    /\ \A c1, c2 \in Allocated :
          c1 # c2 => calls[c1].next_id # calls[c2].next_id
    /\ ID = Cardinality(Allocated)
    /\ Len(TODOORDER) = Cardinality(Completed)
    /\ \A c \in Completed :
          LET i == unwrap(calls[c].next_id)
              a == unwrap(calls[c].args)
          IN  /\ contains_key(TODOSTATE, i)
              /\ TODOSTATE[i] = new_todo(a[1], a[2])
              /\ Cardinality({k \in 1..Len(TODOORDER) : TODOORDER[k] = i}) = 1

C15_Witness ==
    /\ Completed = CallIds
    /\ ID = MaxCreates
    /\ TODOORDER[1] > TODOORDER[2]
====
